---- MODULE Spec2Model ----
(***************************************************************************)
(* Fantasy Football Matrix: the display client (matrix-portal/code.py) and *)
(* the aggregator service (fantasy-football-api/api.py).                   *)
(*                                                                         *)
(* Time is the client's time.monotonic() clock in whole seconds.  Scores   *)
(* and medians are in tenths of a point.                                   *)
(***************************************************************************)
EXTENDS Integers, Sequences, FiniteSets, TLC

(***************************************************************************)
(* Bounds of the model.                                                    *)
(***************************************************************************)
MaxBoot == 5            \* clock value when __main__ starts: 0..MaxBoot
MaxFetchDelay == 1      \* seconds one fetch_matchups call takes: 0..MaxFetchDelay
MaxLen == 2             \* longest matchup list a response carries
MaxTime == 41           \* no loop iteration starts after this clock value
MaxBoxes == 2           \* most box scores the provider returns for a week
MaxScores == 4          \* longest score list the median is applied to on its own

(***************************************************************************)
(* Program constants.                                                      *)
(***************************************************************************)
DISPLAY_TIME == 5
SUMMARY_DISPLAY_TIME == 5
REFRESH_INTERVAL == 30
NO_DATA_DELAY == 5
ERROR_DELAY == 5
HTTP_OK == 200
HTTP_ERROR == 500

VARIABLES
    \* ---- display client: program state ----
    pc,                     \* position in __main__ / run
    WIFI_SSID,              \* os.getenv("CIRCUITPY_WIFI_SSID")
    WIFI_PASSWORD,          \* os.getenv("CIRCUITPY_WIFI_PASSWORD")
    now,                    \* time.monotonic()
    matchups,               \* self.matchups
    projected_median,       \* self.projected_median
    current_matchup_index,  \* self.current_matchup_index
    last_api_call,          \* self.last_api_call
    screen,                 \* what self.display.root_group shows
    frame,                  \* the numbers the group on the screen was built from
    locals_sees_response,   \* 'response' in locals() can be true in fetch_matchups
    \* ---- display client: history of the run ----
    wifiOk,                 \* connect_wifi returned True
    nfetch,                 \* number of fetch_matchups calls so far
    fetchRet,               \* outcome of the latest fetch_matchups call
    lastOkFetchAt,          \* clock value at which the latest successful call started
    matchupsFrom,           \* number of the call whose response self.matchups is from
    medianFrom,             \* number of the call whose response projected_median is from
    lastResponse,           \* the latest call's response object: obtained, closed
    lastIter,               \* what the latest loop iteration did
    transitions,            \* dwell expiries since the loop was entered
    errors,                 \* exceptions caught by the loop
    refreshChecks,          \* evaluations of the refresh-eligibility test
    startLen,               \* len(self.matchups) when the loop was entered
    shown,                  \* matchup indexes rendered in the current cycle
    \* ---- aggregator service ----
    ESPN_LEAGUE_ID,         \* os.getenv("ESPN_LEAGUE_ID")
    ESPN_YEAR,              \* os.getenv("ESPN_YEAR")
    apiUp,                  \* uvicorn is serving
    apiReq,                 \* the latest request and what the provider did for it
    apiResp,                \* the latest response the service produced
    \* ---- one function applied on its own ----
    fnIn,                   \* the function and its arguments
    fnOut                   \* what the call produced

clientVars == <<pc, WIFI_SSID, WIFI_PASSWORD, now, matchups, projected_median,
                current_matchup_index, last_api_call, screen, frame,
                locals_sees_response, wifiOk, nfetch, fetchRet, lastOkFetchAt,
                matchupsFrom, medianFrom, lastResponse, lastIter, transitions,
                errors, refreshChecks, startLen, shown>>
apiVars == <<ESPN_LEAGUE_ID, ESPN_YEAR, apiUp, apiReq, apiResp>>
fnVars == <<fnIn, fnOut>>
vars == <<clientVars, apiVars, fnVars>>

(***************************************************************************)
(* Data: matchups as the client reads them from a response body.           *)
(* shape says which keys the entry carries: "full" has everything the      *)
(* renderers read; "no_prob" lacks home_win_probability (the matchup       *)
(* screen raises KeyError, the summary does not read it); "no_team" lacks  *)
(* home_team (both renderers raise).  home_win_probability is in           *)
(* thousandths.                                                            *)
(***************************************************************************)
Shapes == {"full", "no_prob", "no_team"}

Matchup(h, a, p, s) ==
    [home_score |-> h, away_score |-> a, home_win_probability |-> p, shape |-> s]

MatchupPool == {Matchup(1005, 987, 560, "full"), Matchup(801, 1203, 0, "no_prob"),
                Matchup(450, 450, 500, "no_team")}

RECURSIVE SeqsUpTo(_, _)
SeqsUpTo(S, n) ==
    IF n = 0 THEN {<<>>}
    ELSE LET shorter == SeqsUpTo(S, n - 1)
         IN  shorter \cup {Append(s, x) : s \in {t \in shorter : Len(t) = n - 1}, x \in S}

MatchupLists == SeqsUpTo(MatchupPool, MaxLen)

(***************************************************************************)
(* What self.requests.get(API_URL, timeout=10) can produce.  kind "exc" is *)
(* a raised exception (timeout, connection refused): no response object    *)
(* exists.  Otherwise a response with a status code and a body.  A body is *)
(* either not JSON (json FALSE) or a JSON object that may or may not carry *)
(* the keys "matchups", "projected_median" and "week".  closeRaises: the   *)
(* response's close() raises.  delay: the seconds the call takes.          *)
(***************************************************************************)
Body(j, hm, m, hp, p, hw) ==
    [json |-> j, has_matchups |-> hm, matchups |-> m,
     has_median |-> hp, projected_median |-> p, has_week |-> hw]

NoBody == Body(FALSE, FALSE, <<>>, FALSE, 0, FALSE)

Bodies ==
    {NoBody, Body(TRUE, FALSE, <<>>, FALSE, 0, TRUE)}
    \cup {Body(TRUE, TRUE, m, hp, IF hp THEN 952 ELSE 0, hw) :
             m \in MatchupLists, hp \in BOOLEAN, hw \in BOOLEAN}

NetOutcome(k, st, b, cr, d) ==
    [kind |-> k, status |-> st, body |-> b, closeRaises |-> cr, delay |-> d]

NetOutcomes ==
    {NetOutcome("exc", 0, NoBody, FALSE, d) : d \in 0..MaxFetchDelay}
    \cup {NetOutcome("resp", HTTP_ERROR, NoBody, cr, d) :
             cr \in BOOLEAN, d \in 0..MaxFetchDelay}
    \cup {NetOutcome("resp", HTTP_OK, b, cr, d) :
             b \in Bodies, cr \in BOOLEAN, d \in 0..MaxFetchDelay}

(***************************************************************************)
(* fetch_matchups (code.py 102-132), as a function of the network outcome  *)
(* and the cache it starts from.  The result carries the cache it leaves,  *)
(* the attributes it assigned, ret ("True", "False", or "raised" when the  *)
(* finally clause's close() raised and the exception replaced the return   *)
(* value), whether a response object was obtained and whether it was       *)
(* closed.                                                                 *)
(*   line 110  data = response.json()          raises on a non-JSON body   *)
(*   line 111  self.matchups = data["matchups"]  raises when key is absent *)
(*   line 112  self.projected_median = data.get("projected_median", 0.0)   *)
(*   line 113  print(... data['week'])         raises when key is absent,  *)
(*             after lines 111 and 112 have assigned                       *)
(*   line 132  response.close() if 'response' in locals() else None        *)
(***************************************************************************)
FetchResult(r, m, p, w, o, c) ==
    [ret |-> r, matchups |-> m, projected_median |-> p, assigned |-> w,
     obtained |-> o, closed |-> c]

\* A variant of fetch_body whose line 112 reads data["projected_median"] and
\* raises when the key is absent, after line 111 has assigned.
fetch_body_median_required(net, m0, p0) ==
    IF net.status = HTTP_OK
    THEN LET data == net.body
         IN  IF ~data.json THEN FetchResult("False", m0, p0, {}, TRUE, FALSE)
             ELSE IF ~data.has_matchups
                  THEN FetchResult("False", m0, p0, {}, TRUE, FALSE)
             ELSE IF ~data.has_median
                  THEN FetchResult("False", data.matchups, p0, {"matchups"},
                                   TRUE, FALSE)
             ELSE FetchResult(IF data.has_week THEN "True" ELSE "False",
                              data.matchups, data.projected_median,
                              {"matchups", "projected_median"}, TRUE, FALSE)
    ELSE FetchResult("False", m0, p0, {}, TRUE, FALSE)

\* Lines 109-130: what is done with a response, up to the finally clause.
fetch_body(net, m0, p0) ==
    IF net.status = HTTP_OK
    THEN LET data == net.body
         IN  IF ~data.json THEN FetchResult("False", m0, p0, {}, TRUE, FALSE)
             ELSE IF ~data.has_matchups
                  THEN FetchResult("False", m0, p0, {}, TRUE, FALSE)
             ELSE LET m1 == data.matchups
                      p1 == IF data.has_median THEN data.projected_median ELSE 0
                      w == {"matchups", "projected_median"}
                  IN  IF ~data.has_week
                      THEN FetchResult("False", m1, p1, w, TRUE, FALSE)
                      ELSE FetchResult("True", m1, p1, w, TRUE, FALSE)
    ELSE FetchResult("False", m0, p0, {}, TRUE, FALSE)

\* Line 132.  sees: 'response' in locals() is true when the local variable
\* exists.  CPython's locals() holds the function's local variables;
\* CircuitPython's locals(), called in a function, returns the module's
\* namespace, which has no name "response", so close() is not called.
fetch_matchups(net, m0, p0, sees) ==
    IF net.kind = "exc"
    THEN FetchResult("False", m0, p0, {}, FALSE, FALSE)
    ELSE LET r == fetch_body(net, m0, p0)
         IN  IF ~sees THEN r
             ELSE IF net.closeRaises THEN [r EXCEPT !.ret = "raised"]
             ELSE [r EXCEPT !.closed = TRUE]

(***************************************************************************)
(* The renderers, as far as the loop can tell: whether they return or      *)
(* raise.  hw: the display driver raises while the group is built.         *)
(***************************************************************************)
matchup_renders(m, hw) == m.shape = "full" /\ ~hw

summary_renders(ms, hw) ==
    (\A i \in 1..Len(ms) : ms[i].shape # "no_team") /\ ~hw

Screen(k, i) == [kind |-> k, idx |-> i]
Blank == Screen("blank", 0)
SHOWING_MATCHUP(i) == Screen("matchup", i)
SHOWING_SUMMARY == Screen("summary", 0)

(***************************************************************************)
(* The numbers the renderers compute.  A frame holds those of the group on *)
(* the screen: the two rectangles of the probability bar (matchup screen)  *)
(* or the two medians (summary screen); -1 where the screen has no such    *)
(* number.  The live median is in hundredths of a point.                   *)
(***************************************************************************)
Frame(hb, ax, aw, lm, pm) ==
    [home_bar_width |-> hb, away_bar_x |-> ax, away_bar_width |-> aw,
     live_median |-> lm, projected_median |-> pm]

NoFrame == Frame(-1, -1, -1, -1, -1)

\* code.py 138: round(p * 100) for p in thousandths.  Where p * 100 is half
\* way between two integers the result depends on the float product (CPython
\* gives 55 for 0.545 and 56 for 0.555): either neighbour.
round_percent(p) ==
    LET q == p \div 10
        r == p % 10
    IN  IF r < 5 THEN {q} ELSE IF r > 5 THEN {q + 1} ELSE {q, q + 1}

\* code.py 156.
bar_width == 64

\* A variant of home_bar_width that rounds to the nearest pixel.
home_bar_width_rounded(home_prob) == (home_prob * bar_width + 50) \div 100

\* code.py 159: int((home_prob / 100) * bar_width).
home_bar_width(home_prob) == (home_prob * bar_width) \div 100

\* code.py 198-211: Rect(x=0, width=home_bar_width) and
\* Rect(x=home_bar_width, width=bar_width - home_bar_width).
matchup_frame(home_prob) ==
    Frame(home_bar_width(home_prob), home_bar_width(home_prob),
          bar_width - home_bar_width(home_prob), -1, -1)

\* code.py 222-228: the current scores of both teams of every cached matchup.
all_scores(ms) ==
    [i \in 1..(2 * Len(ms)) |-> IF i % 2 = 1 THEN ms[(i + 1) \div 2].home_score
                                ELSE ms[i \div 2].away_score]

\* sorted(...) of line 230, by insertion.
RECURSIVE insert_sorted(_, _)
insert_sorted(s, x) ==
    IF s = <<>> THEN <<x>>
    ELSE IF x <= Head(s) THEN <<x>> \o s
    ELSE <<Head(s)>> \o insert_sorted(Tail(s), x)

RECURSIVE sorted(_)
sorted(s) ==
    IF s = <<>> THEN <<>> ELSE insert_sorted(sorted(Tail(s)), Head(s))

\* A variant of live_median that takes the upper middle value for an even
\* count.
live_median_upper(scores) ==
    LET sorted_scores == sorted(scores)
        n == Len(sorted_scores)
    IN  10 * sorted_scores[n \div 2 + 1]

\* code.py 230-232, for a non-empty list of scores in tenths; the result is
\* in hundredths.  sorted_scores[k] of the code is sorted_scores[k + 1] here.
live_median(scores) ==
    LET sorted_scores == sorted(scores)
        n == Len(sorted_scores)
    IN  IF n % 2 = 1 THEN 10 * sorted_scores[n \div 2 + 1]
        ELSE 5 * (sorted_scores[n \div 2] + sorted_scores[n \div 2 + 1])

\* Line 232 with an empty list: sorted_scores[-1] raises IndexError.
live_median_raises(scores) == Len(scores) = 0

\* code.py 218-282: the medians the summary screen shows.
summary_frame(ms, pm) == Frame(-1, -1, -1, live_median(all_scores(ms)), pm)

\* A value os.getenv can return that "not value" rejects: None or "".
Falsy == {"None", ""}
EnvValues == Falsy \cup {"set"}

(***************************************************************************)
(* Initial state: FantasyMatrixDisplay.__init__ has run (code.py 77-80).   *)
(***************************************************************************)
InitClient ==
    /\ pc = "main"
    /\ WIFI_SSID \in EnvValues
    /\ WIFI_PASSWORD \in EnvValues
    /\ now \in 0..MaxBoot
    /\ matchups = <<>>
    /\ projected_median = 0
    /\ current_matchup_index = 0
    /\ last_api_call = 0
    /\ screen = Blank
    /\ frame = NoFrame
    /\ locals_sees_response \in BOOLEAN
    /\ wifiOk = FALSE
    /\ nfetch = 0
    /\ fetchRet = "none"
    /\ lastOkFetchAt = -1
    /\ matchupsFrom = 0
    /\ medianFrom = 0
    /\ lastResponse = [obtained |-> FALSE, closed |-> FALSE]
    /\ lastIter = "none"
    /\ transitions = 0
    /\ errors = 0
    /\ refreshChecks = 0
    /\ startLen = 0
    /\ shown = <<>>

histVars == <<lastIter, transitions, errors, refreshChecks, startLen, shown>>
fetchVars == <<nfetch, fetchRet, lastOkFetchAt, matchupsFrom, medianFrom,
               lastResponse>>
cacheVars == <<matchups, projected_median>>
envVars == <<WIFI_SSID, WIFI_PASSWORD, locals_sees_response>>
displayVars == <<screen, frame>>

\* One call of fetch_matchups started at clock value t with result r.
RecordFetch(r, t) ==
    /\ nfetch' = nfetch + 1
    /\ fetchRet' = r.ret
    /\ lastOkFetchAt' = IF r.ret = "True" THEN t ELSE lastOkFetchAt
    /\ matchups' = r.matchups
    /\ projected_median' = r.projected_median
    /\ matchupsFrom' = IF "matchups" \in r.assigned THEN nfetch + 1
                       ELSE matchupsFrom
    /\ medianFrom' = IF "projected_median" \in r.assigned THEN nfetch + 1
                     ELSE medianFrom
    /\ lastResponse' = [obtained |-> r.obtained, closed |-> r.closed]

\* A variant of credentials_missing that tests the network name only.
credentials_missing_ssid_only(ssid, password) == ssid \in Falsy

\* code.py 332: not WIFI_SSID or not WIFI_PASSWORD.
credentials_missing(ssid, password) == ssid \in Falsy \/ password \in Falsy

(***************************************************************************)
(* __main__ (code.py 326-336): run is called only with both credentials.   *)
(***************************************************************************)
Main ==
    /\ pc = "main"
    /\ pc' = IF credentials_missing(WIFI_SSID, WIFI_PASSWORD)
             THEN "no_credentials" ELSE "connect"
    /\ UNCHANGED <<envVars, now, cacheVars, current_matchup_index, last_api_call,
                   displayVars, wifiOk, fetchVars, histVars>>

(***************************************************************************)
(* run, lines 286-288: connect_wifi (84-100).                              *)
(***************************************************************************)
ConnectWifi ==
    /\ pc = "connect"
    /\ \E ok \in BOOLEAN :
          /\ wifiOk' = ok
          /\ pc' = IF ok THEN "fetch0" ELSE "no_wifi"
          /\ now' = IF ok THEN now ELSE now + 1
    /\ UNCHANGED <<envVars, cacheVars, current_matchup_index, last_api_call,
                   displayVars, fetchVars, histVars>>

\* A variant of after_initial_fetch that enters the loop whatever the fetch
\* returned.
after_initial_fetch_ignore(ret) ==
    IF ret = "raised" THEN "crashed" ELSE "loop"

\* code.py 290-294: where run goes after the startup fetch.  An exception
\* that leaves fetch_matchups is not caught here and ends run.
after_initial_fetch(ret) ==
    CASE ret = "True" -> "loop"
      [] ret = "False" -> "no_data"
      [] OTHER -> "crashed"

(***************************************************************************)
(* run, lines 290-294: the blocking startup fetch.                         *)
(***************************************************************************)
InitialFetch ==
    /\ pc = "fetch0"
    /\ \E net \in NetOutcomes :
          LET r == fetch_matchups(net, matchups, projected_median,
                                  locals_sees_response)
          IN  /\ RecordFetch(r, now)
              /\ now' = now + net.delay
              /\ pc' = after_initial_fetch(r.ret)
              /\ startLen' = Len(r.matchups)
    /\ UNCHANGED <<envVars, current_matchup_index, last_api_call, displayVars,
                   wifiOk, lastIter, transitions, errors, refreshChecks, shown>>

\* A variant of except_handler that lets the exception end the loop.
except_handler_exit(t, what) ==
    /\ now' = t
    /\ pc' = "crashed"
    /\ errors' = errors + 1
    /\ lastIter' = what

(***************************************************************************)
(* run, lines 321-323: the loop's except clause, reached at clock value t  *)
(* with an exception of a renderer ("render_error") or of the refresh      *)
(* fetch ("fetch_error").                                                  *)
(***************************************************************************)
except_handler(t, what) ==
    /\ now' = t + ERROR_DELAY
    /\ pc' = "loop"
    /\ errors' = errors + 1
    /\ lastIter' = what

\* Variants of advance: one that skips a matchup, one that stays.
advance_skip(i) == i + 2
advance_stay(i) == i

\* code.py 316: self.current_matchup_index += 1.
advance(i) == i + 1

\* A variant of reset_index that leaves the index where it is.
reset_index_keep(i) == i

\* code.py 303: self.current_matchup_index = 0.
reset_index(i) == 0

\* code.py 307: current_time - self.last_api_call > REFRESH_INTERVAL.
refresh_due(current_time, last) == current_time - last > REFRESH_INTERVAL

\* A variant of ShowMatchup that moves on to the next matchup when the
\* renderer raised.
ShowMatchupSkipping ==
    /\ pc = "loop" /\ now <= MaxTime
    /\ matchups # <<>>
    /\ current_matchup_index < Len(matchups)
    /\ \E hw \in BOOLEAN :
          LET matchup == matchups[current_matchup_index + 1]
          IN  IF matchup_renders(matchup, hw)
              THEN /\ \E home_prob \in round_percent(matchup.home_win_probability) :
                         frame' = matchup_frame(home_prob)
                   /\ screen' = SHOWING_MATCHUP(current_matchup_index)
                   /\ now' = now + DISPLAY_TIME
                   /\ current_matchup_index' = advance(current_matchup_index)
                   /\ shown' = Append(shown, current_matchup_index)
                   /\ transitions' = transitions + 1
                   /\ lastIter' = "matchup"
                   /\ UNCHANGED <<pc, errors>>
              ELSE /\ except_handler(now, "render_error")
                   /\ current_matchup_index' = advance(current_matchup_index)
                   /\ UNCHANGED <<displayVars, shown, transitions>>
    /\ UNCHANGED <<envVars, cacheVars, last_api_call, wifiOk, fetchVars,
                   refreshChecks, startLen>>

(***************************************************************************)
(* run, lines 311-316: one iteration that shows a matchup.                 *)
(***************************************************************************)
ShowMatchup ==
    /\ pc = "loop" /\ now <= MaxTime
    /\ matchups # <<>>
    /\ current_matchup_index < Len(matchups)
    /\ \E hw \in BOOLEAN :
          LET matchup == matchups[current_matchup_index + 1]
          IN  IF matchup_renders(matchup, hw)
              THEN /\ \E home_prob \in round_percent(matchup.home_win_probability) :
                         frame' = matchup_frame(home_prob)
                   /\ screen' = SHOWING_MATCHUP(current_matchup_index)
                   /\ now' = now + DISPLAY_TIME
                   /\ current_matchup_index' = advance(current_matchup_index)
                   /\ shown' = Append(shown, current_matchup_index)
                   /\ transitions' = transitions + 1
                   /\ lastIter' = "matchup"
                   /\ UNCHANGED <<pc, errors>>
              ELSE /\ except_handler(now, "render_error")
                   /\ UNCHANGED <<displayVars, current_matchup_index, shown,
                                  transitions>>
    /\ UNCHANGED <<envVars, cacheVars, last_api_call, wifiOk, fetchVars,
                   refreshChecks, startLen>>

(***************************************************************************)
(* run, lines 300-310: one iteration that shows the summary, resets the    *)
(* index and refreshes the cache when it is due.                           *)
(***************************************************************************)
ShowSummary ==
    /\ pc = "loop" /\ now <= MaxTime
    /\ matchups # <<>>
    /\ current_matchup_index >= Len(matchups)
    /\ \E hw \in BOOLEAN :
          IF ~summary_renders(matchups, hw)
          THEN /\ except_handler(now, "render_error")
               /\ UNCHANGED <<displayVars, current_matchup_index, shown, transitions,
                              refreshChecks, last_api_call, cacheVars, fetchVars>>
          ELSE LET current_time == now + SUMMARY_DISPLAY_TIME
               IN  /\ screen' = SHOWING_SUMMARY
                   /\ frame' = summary_frame(matchups, projected_median)
                   /\ current_matchup_index' = reset_index(current_matchup_index)
                   /\ shown' = <<>>
                   /\ refreshChecks' = refreshChecks + 1
                   /\ transitions' = transitions + 1
                   /\ IF refresh_due(current_time, last_api_call)
                      THEN \E net \in NetOutcomes :
                             LET r == fetch_matchups(net, matchups, projected_median,
                                                     locals_sees_response)
                             IN  /\ RecordFetch(r, current_time)
                                 /\ last_api_call' = IF r.ret = "True" THEN current_time
                                                     ELSE last_api_call
                                 /\ IF r.ret = "raised"
                                    THEN except_handler(current_time + net.delay,
                                                        "fetch_error")
                                    ELSE /\ now' = current_time + net.delay
                                         /\ lastIter' = "summary"
                                         /\ UNCHANGED <<pc, errors>>
                      ELSE /\ now' = current_time
                           /\ lastIter' = "summary"
                           /\ UNCHANGED <<pc, errors, last_api_call, cacheVars, fetchVars>>
    /\ UNCHANGED <<envVars, wifiOk, startLen>>

\* A variant of Idle that fetches while there is nothing to show.
IdleRefetching ==
    /\ pc = "loop" /\ now <= MaxTime
    /\ matchups = <<>>
    /\ \E net \in NetOutcomes :
          RecordFetch(fetch_matchups(net, matchups, projected_median,
                                     locals_sees_response), now)
    /\ now' = now + NO_DATA_DELAY
    /\ lastIter' = "idle"
    /\ UNCHANGED <<pc, envVars, current_matchup_index, last_api_call,
                   displayVars, wifiOk, transitions, errors, refreshChecks,
                   startLen, shown>>

\* A variant of Idle that advances the index while there is nothing to show.
IdleAdvancing ==
    /\ pc = "loop" /\ now <= MaxTime
    /\ matchups = <<>>
    /\ now' = now + NO_DATA_DELAY
    /\ lastIter' = "idle"
    /\ current_matchup_index' = current_matchup_index + 1
    /\ UNCHANGED <<pc, envVars, cacheVars, last_api_call,
                   displayVars, wifiOk, fetchVars, transitions, errors,
                   refreshChecks, startLen, shown>>

(***************************************************************************)
(* run, lines 317-319: one iteration with an empty cache.                  *)
(***************************************************************************)
Idle ==
    /\ pc = "loop" /\ now <= MaxTime
    /\ matchups = <<>>
    /\ now' = now + NO_DATA_DELAY
    /\ lastIter' = "idle"
    /\ UNCHANGED <<pc, envVars, cacheVars, current_matchup_index, last_api_call,
                   displayVars, wifiOk, fetchVars, transitions, errors,
                   refreshChecks, startLen, shown>>

(***************************************************************************)
(* The aggregator service (api.py).                                        *)
(*                                                                         *)
(* A box score of the provider: scores and projections in tenths, and      *)
(* whether its fields have the types lines 111-144 need (a None score      *)
(* makes round() raise, a missing team attribute raises, a wrong type      *)
(* fails MatchupData's validation).                                        *)
(***************************************************************************)
Box(hs, as, hp, ap, ok) ==
    [home_score |-> hs, away_score |-> as, home_projected |-> hp,
     away_projected |-> ap, wellformed |-> ok]

BoxPool == {Box(500, 400, 1000, 900, TRUE), Box(123, 456, 0, 0, TRUE),
            Box(192, 748, 1, 0, TRUE), Box(0, 0, 0, 0, FALSE)}

BoxLists == SeqsUpTo(BoxPool, MaxBoxes)

\* What the provider does for one request: the first step that raises
\* ("none" when no provider call raises) and the week's box scores.
ProviderStages == {"none", "league", "current_week", "box_scores", "settings"}

Upstream(st, bs) == [fails_at |-> st, box_scores |-> bs]
Upstreams == {Upstream(st, bs) : st \in ProviderStages, bs \in BoxLists}

\* int(x) of lines 56-57 raises for None and for a non-numeric string.
EnvIds == {"None", "abc", "12345"}
int_raises(x) == x \in {"None", "abc"}

\* get_league (api.py 52-64): raises when the league id is missing or not an
\* integer, when ESPN_YEAR is set and not an integer, or when League(...) raises.
get_league_raises(id, year, up) ==
    \/ int_raises(id)
    \/ year = "abc"
    \/ up.fails_at = "league"

(***************************************************************************)
(* calculate_win_probability (api.py 68-97).  Scores and projections are   *)
(* in tenths; probabilities are computed in fixed point with 8 decimals    *)
(* and returned in thousandths (round(x, 3)).                              *)
(***************************************************************************)
ONE == 10^8

\* floor(num * 10^k / den), digit by digit.
RECURSIVE DivDigits(_, _, _)
DivDigits(num, den, k) ==
    IF k = 0 THEN num \div den
    ELSE (num \div den) * 10^k + DivDigits((num % den) * 10, den, k - 1)

\* The product of two fixed-point numbers in [0, 1].
mul8(a, b) ==
    LET ah == a \div 10^4   al == a % 10^4
        bh == b \div 10^4   bl == b % 10^4
    IN  ah * bh + (ah * bl + al * bh) \div 10^4 + (al * bl) \div 10^8

\* The base of pow at line 91, times 10^5.
POW_BASE == 271828
\* ln(2.71828), times 10^8.
LN_POW_BASE == 99999933

\* sum over k of (-g)^k / k!, from term k on.
RECURSIVE exp_series(_, _, _)
exp_series(g, k, term) ==
    IF term = 0 \/ k > 12 THEN 0
    ELSE (IF k % 2 = 0 THEN term ELSE 0 - term)
         + exp_series(g, k + 1, mul8(term, g) \div (k + 1))

\* pow(2.71828, -f) for a fraction f in [0, 1).
pow_neg_frac(f) ==
    LET g == mul8(f, LN_POW_BASE) \div 4
        e == exp_series(g, 0, ONE)
        e2 == mul8(e, e)
    IN  mul8(e2, e2)

\* pow(2.71828, -q) for a natural number q.
RECURSIVE pow_neg_int(_)
pow_neg_int(q) ==
    IF q = 0 THEN ONE
    ELSE mul8(DivDigits(10^5, POW_BASE, 8), pow_neg_int(q - 1))

\* pow(2.71828, -n/d) for n >= 0, d > 0; below 10^-8 from n/d = 20 on.
pow_neg(n, d) ==
    IF n >= 20 * d THEN 0
    ELSE mul8(pow_neg_int(n \div d), pow_neg_frac(DivDigits(n % d, d, 8)))

\* round(x, 3) of a fixed-point x in [0, 1], in thousandths (ties to even).
round3(x) ==
    LET q == x \div 10^5
        r == x % 10^5
    IN  IF r > 50000 \/ (r = 50000 /\ q % 2 = 1) THEN q + 1 ELSE q

\* Line 91 raises OverflowError when pow(2.71828, y) exceeds the largest
\* double, that is from y = ln(DBL_MAX) / ln(2.71828) = 709.7832... on;
\* y = -advantage / total_proj.
pow_overflows(n, d) ==
    \/ n \div d >= 710
    \/ n \div d = 709 /\ (n % d) * 10^4 > 7832 * d

\* calculate_win_probability raises instead of returning.
win_probability_raises(home_score, away_score, home_proj, away_proj) ==
    LET advantage == 3 * (home_score - away_score) + 7 * (home_proj - away_proj)
        total_proj == home_proj + away_proj
    IN  total_proj > 0 /\ advantage < 0 /\ pow_overflows(0 - advantage, total_proj)

\* The divisors line 90 is evaluated with, total_proj * 0.1 in hundredths:
\* none when line 75 returns or line 89 takes the else branch.
win_probability_divisors(home_proj, away_proj) ==
    IF home_proj + away_proj = 0 THEN <<>>
    ELSE IF home_proj + away_proj > 0 THEN <<home_proj + away_proj>>
    ELSE <<>>

\* A variant of calculate_win_probability whose line 75 returns the home
\* team as certain to win.
calculate_win_probability_home_default(home_score, away_score, home_proj, away_proj) ==
    IF home_proj + away_proj = 0 THEN <<1000, 0>>
    ELSE LET advantage == 3 * (home_score - away_score) + 7 * (home_proj - away_proj)
             total_proj == home_proj + away_proj
             home_prob ==
                 IF total_proj > 0
                 THEN IF advantage >= 0
                      THEN DivDigits(ONE, ONE + pow_neg(advantage, total_proj), 8)
                      ELSE LET e == pow_neg(0 - advantage, total_proj)
                           IN  DivDigits(e, ONE + e, 8)
                 ELSE ONE \div 2
         IN  <<round3(home_prob), round3(ONE - home_prob)>>

calculate_win_probability(home_score, away_score, home_proj, away_proj) ==
    IF home_proj + away_proj = 0 THEN <<500, 500>>
    ELSE LET score_diff == home_score - away_score
             proj_diff == home_proj - away_proj
             \* total_advantage / (total_proj * 0.1) = advantage / total_proj
             advantage == 3 * score_diff + 7 * proj_diff
             total_proj == home_proj + away_proj
             home_prob ==
                 IF total_proj > 0
                 THEN IF advantage >= 0
                      THEN DivDigits(ONE, ONE + pow_neg(advantage, total_proj), 8)
                      ELSE LET e == pow_neg(0 - advantage, total_proj)
                           IN  DivDigits(e, ONE + e, 8)
                 ELSE ONE \div 2
             away_prob == ONE - home_prob
         IN  <<round3(home_prob), round3(away_prob)>>

\* A variant of MatchupData that numbers the matchups from 1.
MatchupData_one_based(i, box) ==
    LET prob == calculate_win_probability(box.home_score, box.away_score,
                                          box.home_projected, box.away_projected)
    IN  [matchup_index |-> i + 1,
         home_score |-> box.home_score, away_score |-> box.away_score,
         home_projected |-> box.home_projected,
         away_projected |-> box.away_projected,
         home_win_probability |-> prob[1],
         away_win_probability |-> prob[2]]

\* api.py 125-144, with line 112's calculate_win_probability.
MatchupData(i, box) ==
    LET prob == calculate_win_probability(box.home_score, box.away_score,
                                          box.home_projected, box.away_projected)
    IN  [matchup_index |-> i,
         home_score |-> box.home_score, away_score |-> box.away_score,
         home_projected |-> box.home_projected,
         away_projected |-> box.away_projected,
         home_win_probability |-> prob[1],
         away_win_probability |-> prob[2]]

\* Lines 111-145 raise for this box score.
box_raises(box) ==
    \/ ~box.wellformed
    \/ win_probability_raises(box.home_score, box.away_score,
                              box.home_projected, box.away_projected)

\* The loop of lines 109-145 from box k (one-based) on, matchups_data so far
\* in acc: the list built, or "raised" at the first box that cannot be
\* transformed.
RECURSIVE transform_boxes(_, _, _)
transform_boxes(boxes, k, acc) ==
    IF k > Len(boxes) THEN [raised |-> FALSE, matchups_data |-> acc]
    ELSE IF box_raises(boxes[k]) THEN [raised |-> TRUE, matchups_data |-> acc]
    ELSE transform_boxes(boxes, k + 1, Append(acc, MatchupData(k - 1, boxes[k])))

Response(p, st, keys, ms, n) ==
    [path |-> p, status |-> st, keys |-> keys, matchups |-> ms, total_matchups |-> n]

NoResponse == Response("", 0, {}, <<>>, 0)
NoRequest == [path |-> "", upstream |-> Upstream("none", <<>>)]

\* api.py 154-155: HTTPException(status_code=500, detail=...).
server_error == Response("/league/data", HTTP_ERROR, {"detail"}, <<>>, 0)

\* A variant of get_league_data that answers with the matchups built before
\* the first box score that cannot be transformed.
get_league_data_partial(id, year, up) ==
    IF get_league_raises(id, year, up) THEN server_error
    ELSE IF up.fails_at \in {"current_week", "box_scores", "settings"} THEN server_error
    ELSE LET t == transform_boxes(up.box_scores, 1, <<>>)
         IN  Response("/league/data", HTTP_OK,
                      {"matchups", "week", "league_name", "total_matchups"},
                      t.matchups_data, Len(t.matchups_data))

(***************************************************************************)
(* get_league_data (api.py 99-155): everything runs inside one try, and    *)
(* any exception becomes the 500 response.                                 *)
(***************************************************************************)
get_league_data(id, year, up) ==
    IF get_league_raises(id, year, up) THEN server_error
    ELSE IF up.fails_at = "current_week" THEN server_error
    ELSE IF up.fails_at = "box_scores" THEN server_error
    ELSE LET t == transform_boxes(up.box_scores, 1, <<>>)
         IN  IF t.raised THEN server_error
             ELSE IF up.fails_at = "settings" THEN server_error
             ELSE Response("/league/data", HTTP_OK,
                           {"matchups", "week", "league_name", "total_matchups"},
                           t.matchups_data, Len(t.matchups_data))

\* api.py 158-160 (and the module's import-time code, lines 9-20): the server
\* starts without reading the league configuration.
ApiStart ==
    /\ ~apiUp
    /\ apiUp' = TRUE
    /\ UNCHANGED <<ESPN_LEAGUE_ID, ESPN_YEAR, apiReq, apiResp>>

\* api.py 43-45.
ApiRoot ==
    /\ apiUp
    /\ apiReq' = [path |-> "/", upstream |-> Upstream("none", <<>>)]
    /\ apiResp' = Response("/", HTTP_OK, {"message", "status"}, <<>>, 0)
    /\ UNCHANGED <<ESPN_LEAGUE_ID, ESPN_YEAR, apiUp>>

\* api.py 47-49.
ApiHealth ==
    /\ apiUp
    /\ apiReq' = [path |-> "/health", upstream |-> Upstream("none", <<>>)]
    /\ apiResp' = Response("/health", HTTP_OK, {"status"}, <<>>, 0)
    /\ UNCHANGED <<ESPN_LEAGUE_ID, ESPN_YEAR, apiUp>>

\* One GET /league/data request.
ApiLeagueData ==
    /\ apiUp
    /\ \E up \in Upstreams :
          /\ apiReq' = [path |-> "/league/data", upstream |-> up]
          /\ apiResp' = get_league_data(ESPN_LEAGUE_ID, ESPN_YEAR, up)
    /\ UNCHANGED <<ESPN_LEAGUE_ID, ESPN_YEAR, apiUp>>

InitApi ==
    /\ ESPN_LEAGUE_ID \in EnvIds
    /\ ESPN_YEAR \in {"None", "abc", "2024"}
    /\ apiUp = FALSE
    /\ apiReq = NoRequest
    /\ apiResp = NoResponse

\* The service is not part of the run: its variables stay as they are.
ApiOff ==
    /\ ESPN_LEAGUE_ID = "None"
    /\ ESPN_YEAR = "None"
    /\ apiUp = FALSE
    /\ apiReq = NoRequest
    /\ apiResp = NoResponse

\* The client is not part of the run.
ClientOff ==
    /\ InitClient
    /\ WIFI_SSID = "None"
    /\ WIFI_PASSWORD = "None"
    /\ ~locals_sees_response
    /\ now = 0

(***************************************************************************)
(* One function applied on its own to arguments from bounded sets:         *)
(* calculate_win_probability (api.py 68-97), the probability bar of        *)
(* create_matchup_display (code.py 138-211) and the live median of         *)
(* create_summary_display (code.py 230-232).                               *)
(***************************************************************************)
Call(f, a) == [fn |-> f, args |-> a]
NoCall == Call("none", <<>>)

\* Current scores and projections, in tenths.
ScoreSamples == {0, 192, 500, 748, 1000}
ProjSamples == {0, 1, 900, 1000}
MedianScores == {100, 200, 300, 400}

Calls ==
    {Call("calculate_win_probability", <<hs, as, hp, ap>>) :
         hs \in ScoreSamples, as \in ScoreSamples,
         hp \in ProjSamples, ap \in ProjSamples}
    \cup {Call("probability_bar", <<p>>) : p \in 0..1000}
    \cup {Call("live_median", scores) : scores \in SeqsUpTo(MedianScores, MaxScores)}

\* What a call produced: it raised, or it returned value; divisors are the
\* divisors its divisions were evaluated with.
Out(d, r, v, ds) == [done |-> d, raised |-> r, value |-> v, divisors |-> ds]
NoOut == Out(FALSE, FALSE, <<>>, <<>>)

ApplyWinProbability ==
    /\ fnIn.fn = "calculate_win_probability" /\ ~fnOut.done
    /\ LET a == fnIn.args
           ds == win_probability_divisors(a[3], a[4])
       IN  fnOut' = IF win_probability_raises(a[1], a[2], a[3], a[4])
                    THEN Out(TRUE, TRUE, <<>>, ds)
                    ELSE Out(TRUE, FALSE,
                             calculate_win_probability(a[1], a[2], a[3], a[4]), ds)
    /\ UNCHANGED fnIn

ApplyProbabilityBar ==
    /\ fnIn.fn = "probability_bar" /\ ~fnOut.done
    /\ \E home_prob \in round_percent(fnIn.args[1]) :
          LET f == matchup_frame(home_prob)
          IN  fnOut' = Out(TRUE, FALSE,
                           <<f.home_bar_width, f.away_bar_x, f.away_bar_width>>, <<>>)
    /\ UNCHANGED fnIn

ApplyLiveMedian ==
    /\ fnIn.fn = "live_median" /\ ~fnOut.done
    /\ fnOut' = IF live_median_raises(fnIn.args) THEN Out(TRUE, TRUE, <<>>, <<>>)
                ELSE Out(TRUE, FALSE, <<live_median(fnIn.args)>>, <<>>)
    /\ UNCHANGED fnIn

\* No function is applied on its own in the run.
FnOff == fnIn = NoCall /\ fnOut = NoOut

Init == InitClient /\ ApiOff /\ FnOff

Next ==
    \/ Main /\ UNCHANGED <<apiVars, fnVars>>
    \/ ConnectWifi /\ UNCHANGED <<apiVars, fnVars>>
    \/ InitialFetch /\ UNCHANGED <<apiVars, fnVars>>
    \/ ShowMatchup /\ UNCHANGED <<apiVars, fnVars>>
    \/ ShowSummary /\ UNCHANGED <<apiVars, fnVars>>
    \/ Idle /\ UNCHANGED <<apiVars, fnVars>>

\* The display client alone.
Spec == Init /\ [][Next]_vars

InitApiOnly == ClientOff /\ InitApi /\ FnOff

NextApi ==
    \/ ApiStart /\ UNCHANGED <<clientVars, fnVars>>
    \/ ApiRoot /\ UNCHANGED <<clientVars, fnVars>>
    \/ ApiHealth /\ UNCHANGED <<clientVars, fnVars>>
    \/ ApiLeagueData /\ UNCHANGED <<clientVars, fnVars>>

\* The aggregator service alone.
SpecApi == InitApiOnly /\ [][NextApi]_vars

InitStartup ==
    /\ InitClient /\ now = 0 /\ ~locals_sees_response
    /\ InitApi /\ ESPN_YEAR = "None"
    /\ FnOff

NextStartup ==
    \/ Main /\ UNCHANGED <<apiVars, fnVars>>
    \/ ConnectWifi /\ UNCHANGED <<apiVars, fnVars>>
    \/ ApiStart /\ UNCHANGED <<clientVars, fnVars>>
    \/ ApiRoot /\ UNCHANGED <<clientVars, fnVars>>
    \/ ApiHealth /\ UNCHANGED <<clientVars, fnVars>>
    \/ ApiLeagueData /\ UNCHANGED <<clientVars, fnVars>>

\* Both components from their start: the client up to its Wi-Fi connection,
\* the service from its start on.
SpecStartup == InitStartup /\ [][NextStartup]_vars

InitFunctions == ClientOff /\ ApiOff /\ fnIn \in Calls /\ fnOut = NoOut

NextFunctions ==
    \/ ApplyWinProbability /\ UNCHANGED <<clientVars, apiVars>>
    \/ ApplyProbabilityBar /\ UNCHANGED <<clientVars, apiVars>>
    \/ ApplyLiveMedian /\ UNCHANGED <<clientVars, apiVars>>

\* The three functions, each applied once to every argument.
SpecFunctions == InitFunctions /\ [][NextFunctions]_vars

InitDisplay == Init \/ (InitFunctions /\ fnIn.fn = "live_median")

NextDisplay ==
    \/ Main /\ UNCHANGED <<apiVars, fnVars>>
    \/ ConnectWifi /\ UNCHANGED <<apiVars, fnVars>>
    \/ InitialFetch /\ UNCHANGED <<apiVars, fnVars>>
    \/ ShowMatchup /\ UNCHANGED <<apiVars, fnVars>>
    \/ ShowSummary /\ UNCHANGED <<apiVars, fnVars>>
    \/ Idle /\ UNCHANGED <<apiVars, fnVars>>
    \/ ApplyLiveMedian /\ UNCHANGED <<clientVars, apiVars>>

\* The display client, and the live median applied on its own.
SpecDisplay == InitDisplay /\ [][NextDisplay]_vars

(***************************************************************************)
(* Properties.                                                             *)
(***************************************************************************)

\* The state of the render state machine at the top of a loop iteration.
ShowState ==
    IF current_matchup_index < Len(matchups)
    THEN SHOWING_MATCHUP(current_matchup_index)
    ELSE SHOWING_SUMMARY

CacheUnchanged == matchups' = matchups /\ projected_median' = projected_median

\* C1: every call of fetch_matchups that returns False leaves the cached
\* snapshot (matchups and projected_median) exactly as it was before the call.
C1_FailedFetchKeepsCache ==
    [][(nfetch' = nfetch + 1 /\ fetchRet' = "False") => CacheUnchanged]_vars

\* C2: the loop is entered in SHOWING_MATCHUP(0); with a non-empty cache, an
\* iteration without an error renders the state it is in and then moves
\* SHOWING_MATCHUP(i) to SHOWING_MATCHUP(i+1) when i+1 < count and to
\* SHOWING_SUMMARY otherwise, and SHOWING_SUMMARY to SHOWING_MATCHUP(0); the
\* summary is rendered after each matchup was rendered once, in list order.
C2_RenderCycle ==
    /\ []((pc = "loop" /\ transitions = 0) => current_matchup_index = 0)
    /\ [][(pc = "loop" /\ matchups # <<>> /\ errors' = errors) =>
            /\ screen' = ShowState
            /\ IF current_matchup_index < Len(matchups)
               THEN /\ ShowState' = IF current_matchup_index + 1 < Len(matchups)
                                    THEN SHOWING_MATCHUP(current_matchup_index + 1)
                                    ELSE SHOWING_SUMMARY
                    /\ shown' = Append(shown, current_matchup_index)
               ELSE /\ current_matchup_index' = 0
                    /\ (matchups' # <<>> => ShowState' = SHOWING_MATCHUP(0))
                    /\ shown = [i \in 1..Len(matchups) |-> i - 1]
                    /\ shown' = <<>>]_vars

\* A cycle over two matchups has completed without an error.
C2_Witness ==
    /\ pc = "loop" /\ startLen = 2 /\ errors = 0
    /\ transitions = 4 /\ screen = SHOWING_MATCHUP(0)

\* C3: on the SHOWING_SUMMARY -> SHOWING_MATCHUP(0) transition a fetch is
\* attempted if and only if at least REFRESH_INTERVAL seconds have elapsed
\* since the last successful fetch, the startup fetch included.
C3_RefreshIffIntervalElapsed ==
    [][(refreshChecks' = refreshChecks + 1) =>
          ((nfetch' = nfetch + 1) <=>
           ((now + SUMMARY_DISPLAY_TIME) - lastOkFetchAt >= REFRESH_INTERVAL))]_vars

\* C4: the render loop is entered only after the Wi-Fi connection and the
\* first fetch both succeeded, nothing is rendered outside the loop, and a
\* failed startup step ends run with no retry.
C4_LoopNeedsWifiAndFirstFetch ==
    /\ pc = "loop" => (wifiOk /\ lastOkFetchAt >= 0)
    /\ screen # Blank => pc = "loop"
    /\ pc \in {"no_data", "crashed"} =>
          (wifiOk /\ nfetch = 1 /\ fetchRet # "True" /\ transitions = 0)
    /\ pc \in {"no_credentials", "no_wifi"} => (nfetch = 0 /\ ~wifiOk)
    /\ pc \in {"no_data", "crashed", "no_credentials", "no_wifi"} => ~ENABLED Next

\* The startup fetch failed and run has ended.
C4_Witness ==
    pc = "no_data" /\ nfetch = 1 /\ fetchRet = "False" /\ screen = Blank

\* What makes a GET /league/data request fail, read off the request.
RequestFails(up) ==
    \/ int_raises(ESPN_LEAGUE_ID)
    \/ ESPN_YEAR = "abc"
    \/ up.fails_at # "none"
    \/ \E k \in 1..Len(up.box_scores) : box_raises(up.box_scores[k])

\* C5: a GET /league/data request during which the configuration read, the
\* league construction, the current week, the box scores or the transformation
\* of any one box score fails is answered with HTTP 500 and a detail message
\* and carries no matchups; a success response has every box score of the week.
C5_NoPartialSuccess ==
    apiReq.path = "/league/data" =>
        /\ RequestFails(apiReq.upstream) =>
              /\ apiResp.status = HTTP_ERROR
              /\ apiResp.keys = {"detail"}
              /\ apiResp.matchups = <<>>
        /\ apiResp.status = HTTP_OK =>
              /\ ~RequestFails(apiReq.upstream)
              /\ Len(apiResp.matchups) = Len(apiReq.upstream.box_scores)

\* The second of two box scores could not be transformed.
C5_Witness ==
    /\ apiReq.path = "/league/data"
    /\ ~int_raises(ESPN_LEAGUE_ID) /\ ESPN_YEAR # "abc"
    /\ apiReq.upstream.fails_at = "none"
    /\ Len(apiReq.upstream.box_scores) = 2
    /\ apiReq.upstream.box_scores[1].wellformed
    /\ ~apiReq.upstream.box_scores[2].wellformed
    /\ apiResp.status = HTTP_ERROR

\* The loop was entered with two matchups and the cache holds two.
TwoMatchups == pc = "loop" /\ startLen = 2 /\ Len(matchups) = 2

\* C6 as stated: with 2 matchups, from SHOWING_MATCHUP(0), the state after 3
\* dwell expiries is SHOWING_SUMMARY, and after 4 it is SHOWING_MATCHUP(0)
\* with the refresh-eligibility check triggered.
C6_SummaryAfterThree ==
    TwoMatchups =>
        /\ transitions = 3 => ShowState = SHOWING_SUMMARY
        /\ transitions = 4 =>
              (ShowState = SHOWING_MATCHUP(0) /\ refreshChecks = 1)

\* C6 amended: with 2 matchups, from SHOWING_MATCHUP(0), the state after 2
\* dwell expiries is SHOWING_SUMMARY, and after 3 it is SHOWING_MATCHUP(0)
\* with the refresh-eligibility check triggered once.
C6_SummaryAfterTwo ==
    TwoMatchups =>
        /\ transitions = 0 => (ShowState = SHOWING_MATCHUP(0) /\ refreshChecks = 0)
        /\ transitions = 1 => (ShowState = SHOWING_MATCHUP(1) /\ refreshChecks = 0)
        /\ transitions = 2 => (ShowState = SHOWING_SUMMARY /\ refreshChecks = 0)
        /\ transitions = 3 => (ShowState = SHOWING_MATCHUP(0) /\ refreshChecks = 1)

\* Three dwell expiries after the loop was entered with two matchups.
C6_Witness ==
    TwoMatchups /\ transitions = 3 /\ screen = SHOWING_SUMMARY /\ refreshChecks = 1

\* C7: the loop has no terminal state: an exception raised in an iteration
\* (by a renderer or by the refresh fetch) is caught, a fixed delay follows,
\* and the loop goes on to another iteration.
C7_LoopNeverExits ==
    /\ []((pc = "loop" /\ now <= MaxTime) => ENABLED Next)
    /\ [][pc = "loop" =>
            /\ pc' = "loop"
            /\ errors' = errors + 1 =>
                  \/ now' = now + ERROR_DELAY
                  \/ /\ nfetch' = nfetch + 1
                     /\ fetchRet' = "raised"
                     /\ now' - (now + SUMMARY_DISPLAY_TIME + ERROR_DELAY)
                            \in 0..MaxFetchDelay]_vars

\* An exception of the refresh fetch was caught and the loop went on to show
\* a matchup.
C7_Witness ==
    /\ pc = "loop" /\ errors >= 1
    /\ nfetch = 2 /\ fetchRet = "raised"
    /\ lastIter = "matchup"

\* C8: an iteration that starts with an empty cache renders nothing, waits
\* the fixed delay, and leaves current_matchup_index, the cache and the
\* fetch time as they are.
C8_IdleChangesNothing ==
    [][(pc = "loop" /\ matchups = <<>>) =>
          /\ screen' = screen
          /\ current_matchup_index' = current_matchup_index
          /\ CacheUnchanged
          /\ last_api_call' = last_api_call
          /\ nfetch' = nfetch
          /\ pc' = "loop"
          /\ now' = now + NO_DATA_DELAY]_vars

\* The loop idled after a refresh emptied the cache.
C8_Witness ==
    pc = "loop" /\ lastIter = "idle" /\ matchups = <<>> /\ screen = SHOWING_SUMMARY

\* C9 as stated: with a missing or non-integer league identifier the
\* aggregator serves no request, and with a missing Wi-Fi name or passphrase
\* run is never called.
C9_ConfigErrorsFatalForBoth ==
    /\ int_raises(ESPN_LEAGUE_ID) => (~apiUp /\ apiResp = NoResponse)
    /\ credentials_missing(WIFI_SSID, WIFI_PASSWORD) =>
          pc \in {"main", "no_credentials"}

\* C9 amended: with a missing Wi-Fi name or passphrase run is never called;
\* the aggregator checks nothing when it starts, and with a missing or
\* non-integer league identifier it answers every GET /league/data with
\* HTTP 500 while / and /health answer 200.
C9_ConfigErrors ==
    /\ (WIFI_SSID \in Falsy \/ WIFI_PASSWORD \in Falsy) =>
          (pc \in {"main", "no_credentials"} /\ ~wifiOk)
    /\ (int_raises(ESPN_LEAGUE_ID) /\ apiReq.path = "/league/data") =>
          apiResp = server_error
    /\ apiReq.path \in {"/", "/health"} => apiResp.status = HTTP_OK
    /\ ~apiUp => ENABLED ApiStart

\* The passphrase is missing and the client has stopped; the league
\* identifier is missing and the service has answered a request with 500.
C9_Witness ==
    /\ WIFI_SSID = "set" /\ WIFI_PASSWORD = "None" /\ pc = "no_credentials"
    /\ ESPN_LEAGUE_ID = "None" /\ apiUp /\ apiResp = server_error

\* C10: after any successful fetch, the startup fetch included,
\* last_api_call is the time of that fetch.
C10_LastApiCallIsLastSuccess ==
    lastOkFetchAt >= 0 => last_api_call = lastOkFetchAt

\* C11: the cache is replaced all or nothing: in every state, and so at
\* every render, self.matchups and self.projected_median come from one and
\* the same fetched response (or both from the constructor); no state pairs
\* the matchups of one response with the projected_median of another.
C11_CacheFromOneResponse ==
    matchupsFrom = medianFrom /\ matchupsFrom <= nfetch

\* A refresh replaced both parts of the cache, and a matchup of the new
\* cache was rendered.
C11_Witness ==
    /\ pc = "loop" /\ nfetch = 2 /\ matchupsFrom = 2 /\ medianFrom = 2
    /\ projected_median = 952 /\ lastIter = "matchup"

\* C12: for all non-negative current scores and projections,
\* calculate_win_probability returns a pair (h, a), each rounded to three
\* decimals, with 0 <= h <= 1, 0 <= a <= 1 and h + a = 1.
C12_ProbabilitiesSumToOne ==
    (fnIn.fn = "calculate_win_probability" /\ fnOut.done) =>
        /\ ~fnOut.raised
        /\ fnOut.value[1] \in 0..1000
        /\ fnOut.value[2] \in 0..1000
        /\ fnOut.value[1] + fnOut.value[2] = 1000

\* C13 as stated: for every home_win_probability p in [0, 1] with three
\* decimals the bar is split at round(p * bar_width) pixels from the left:
\* the home segment has that width and the away segment starts at that x.
C13_BarSplitRounded ==
    (fnIn.fn = "probability_bar" /\ fnOut.done) =>
        /\ fnOut.value[1] = (fnIn.args[1] * bar_width + 500) \div 1000
        /\ fnOut.value[2] = fnOut.value[1]

\* C13 amended: for every such p the bar is split at
\* int((round(p * 100) / 100) * bar_width) pixels from the left, that is p
\* rounded to a whole percent k and 64 * k / 100 truncated: the home segment
\* has that width, the away segment starts at that x and fills the rest of
\* the bar_width = 64 pixels.
C13_BarSplitTruncated ==
    (fnIn.fn = "probability_bar" /\ fnOut.done) =>
        \E k \in 0..100 :
            /\ 10 * k - fnIn.args[1] \in -5..5
            /\ 100 * fnOut.value[1] <= 64 * k
            /\ 64 * k < 100 * (fnOut.value[1] + 1)
            /\ fnOut.value[2] = fnOut.value[1]
            /\ fnOut.value[3] = 64 - fnOut.value[1]

\* The bar for p = 0.010: the home segment is 0 pixels wide, where
\* round(p * 64) is 1.
C13_Witness ==
    /\ fnIn = Call("probability_bar", <<10>>)
    /\ fnOut.done /\ fnOut.value = <<0, 0, 64>>

\* C14: in every success response of GET /league/data total_matchups equals
\* the length of matchups, matchups has one entry per box score of the
\* provider in the provider's order, and the k-th entry (counting from 0)
\* has matchup_index k.
C14_OneEntryPerBoxInOrder ==
    (apiReq.path = "/league/data" /\ apiResp.status = HTTP_OK) =>
        LET boxes == apiReq.upstream.box_scores
            ms == apiResp.matchups
        IN  /\ apiResp.total_matchups = Len(ms)
            /\ Len(ms) = Len(boxes)
            /\ \A k \in 1..Len(ms) :
                   /\ ms[k].matchup_index = k - 1
                   /\ ms[k].home_score = boxes[k].home_score
                   /\ ms[k].away_score = boxes[k].away_score
                   /\ ms[k].home_projected = boxes[k].home_projected
                   /\ ms[k].away_projected = boxes[k].away_projected

\* A success response for two different box scores.
C14_Witness ==
    /\ apiReq.path = "/league/data" /\ apiResp.status = HTTP_OK
    /\ apiResp.total_matchups = 2
    /\ apiReq.upstream.box_scores[1] # apiReq.upstream.box_scores[2]
    /\ apiResp.matchups[2].matchup_index = 1

\* C15: after fetch_matchups has returned, on every path, a response object
\* that was obtained has been closed; when the request raised before a
\* response existed, no close is attempted and the call returns False.
C15_ResponseClosedOnReturn ==
    (nfetch > 0 /\ fetchRet \in {"True", "False"}) =>
        /\ lastResponse.obtained => lastResponse.closed
        /\ ~lastResponse.obtained => (~lastResponse.closed /\ fetchRet = "False")

\* C16: whenever home_projected + away_projected is 0,
\* calculate_win_probability returns exactly (0.5, 0.5) for every pair of
\* current scores, and the division by the total projected points is never
\* evaluated with a zero divisor.
C16_ZeroProjectionEvenOdds ==
    (fnIn.fn = "calculate_win_probability" /\ fnOut.done) =>
        /\ fnIn.args[3] + fnIn.args[4] = 0 =>
               /\ ~fnOut.raised
               /\ fnOut.value = <<500, 500>>
               /\ fnOut.divisors = <<>>
        /\ \A i \in 1..Len(fnOut.divisors) : fnOut.divisors[i] # 0

\* A call with both projections 0 and different current scores.
C16_Witness ==
    /\ fnIn = Call("calculate_win_probability", <<192, 748, 0, 0>>)
    /\ fnOut.done /\ fnOut.value = <<500, 500>>

\* The k-th smallest value of a non-empty list, by counting.
KthSmallest(scores, k) ==
    CHOOSE v \in {scores[i] : i \in 1..Len(scores)} :
        /\ Cardinality({i \in 1..Len(scores) : scores[i] < v}) < k
        /\ Cardinality({i \in 1..Len(scores) : scores[i] <= v}) >= k

\* The median of a non-empty list of scores in tenths, in hundredths.
MedianOf(scores) ==
    LET n == Len(scores)
    IN  IF n % 2 = 1 THEN 10 * KthSmallest(scores, (n + 1) \div 2)
        ELSE 5 * (KthSmallest(scores, n \div 2) + KthSmallest(scores, n \div 2 + 1))

\* C17: the live median of the summary screen is computed at each render
\* from the current scores of all teams in the cached matchups; it is the
\* average of the two middle values of the sorted scores for an even count
\* and the single middle value for an odd count ([10, 20, 30] gives 20,
\* [10, 20, 30, 40] gives 25); the loop never evaluates it on an empty list.
C17_LiveMedian ==
    /\ []((fnIn.fn = "live_median" /\ fnOut.done /\ Len(fnIn.args) > 0) =>
             (~fnOut.raised /\ fnOut.value = <<MedianOf(fnIn.args)>>))
    /\ []((fnOut.done /\ fnIn.args = <<100, 200, 300>>) => fnOut.value = <<2000>>)
    /\ []((fnOut.done /\ fnIn.args = <<100, 200, 300, 400>>) => fnOut.value = <<2500>>)
    /\ [][(refreshChecks' = refreshChecks + 1) =>
             /\ matchups # <<>>
             /\ ~live_median_raises(all_scores(matchups))
             /\ Len(all_scores(matchups)) = 2 * Len(matchups)
             /\ \A i \in 1..Len(matchups) :
                    /\ all_scores(matchups)[2 * i - 1] = matchups[i].home_score
                    /\ all_scores(matchups)[2 * i] = matchups[i].away_score
             /\ frame'.live_median = MedianOf(all_scores(matchups))
             /\ frame'.projected_median = projected_median]_vars

\* The summary of two cached matchups was rendered with the live median
\* (98.7 + 100.5) / 2 = 99.6 of the scores 100.5, 98.7, 80.1 and 120.3.
C17_Witness ==
    /\ screen = SHOWING_SUMMARY /\ refreshChecks = 1
    /\ frame.live_median = 9960

\* C18: in every state of the render loop
\* 0 <= current_matchup_index <= len(matchups), and whenever a matchup is
\* rendered the index is below len(matchups); this holds across refreshes
\* that replace the cache by a shorter or longer list, because a fetch in
\* the loop is made only right after the index was reset to 0.
C18_IndexInRange ==
    /\ [](pc = "loop" => current_matchup_index \in 0..Len(matchups))
    /\ [][(pc = "loop" /\ lastIter' = "matchup" /\ transitions' = transitions + 1) =>
             /\ current_matchup_index < Len(matchups)
             /\ screen' = SHOWING_MATCHUP(current_matchup_index)]_vars
    /\ [][(pc = "loop" /\ nfetch' = nfetch + 1) => current_matchup_index' = 0]_vars

\* A refresh replaced a cache of two matchups by a shorter one, and a
\* matchup of the new cache was rendered.
C18_Witness ==
    /\ pc = "loop" /\ startLen = 2 /\ nfetch = 2 /\ matchupsFrom = 2
    /\ Len(matchups) = 1 /\ lastIter = "matchup" /\ current_matchup_index = 1

\* C19: in the render loop a fetch is attempted only in the summary branch;
\* so once the cache holds an empty matchup list (stored by a fetch), every
\* later iteration idles: no fetch is attempted again and the cache stays
\* empty for the rest of the run.
C19_EmptyCacheStaysEmpty ==
    /\ [][(pc = "loop" /\ nfetch' = nfetch + 1) =>
             /\ matchups # <<>>
             /\ current_matchup_index >= Len(matchups)
             /\ screen' = SHOWING_SUMMARY
             /\ refreshChecks' = refreshChecks + 1]_vars
    /\ [][(pc = "loop" /\ matchups = <<>>) =>
             /\ lastIter' = "idle"
             /\ matchups' = <<>>
             /\ nfetch' = nfetch
             /\ fetchRet' = fetchRet
             /\ pc' = "loop"]_vars

\* A successful refresh stored an empty list and the loop has idled twice
\* since.
C19_Witness ==
    /\ pc = "loop" /\ nfetch = 2 /\ fetchRet = "True" /\ matchupsFrom = 2
    /\ matchups = <<>> /\ lastIter = "idle"
    /\ now - lastOkFetchAt >= 2 * NO_DATA_DELAY

\* Every attempt to render the state the loop is in raises, whatever the
\* display driver does.
RenderAlwaysFails ==
    /\ matchups # <<>>
    /\ IF current_matchup_index < Len(matchups)
       THEN \A hw \in BOOLEAN :
               ~matchup_renders(matchups[current_matchup_index + 1], hw)
       ELSE \A hw \in BOOLEAN : ~summary_renders(matchups, hw)

\* C20: when the renderer raises in a loop iteration (matchup or summary),
\* current_matchup_index, the cached snapshot and last_api_call are
\* unchanged and no fetch is attempted in that iteration, so the next
\* iteration retries the same state; if rendering that state fails on every
\* attempt, the machine never advances and never refreshes again.
C20_RenderErrorChangesNothing ==
    /\ [][(pc = "loop" /\ errors' = errors + 1 /\ lastIter' = "render_error") =>
             /\ current_matchup_index' = current_matchup_index
             /\ CacheUnchanged
             /\ last_api_call' = last_api_call
             /\ nfetch' = nfetch
             /\ screen' = screen
             /\ ShowState' = ShowState
             /\ pc' = "loop"
             /\ now' = now + ERROR_DELAY]_vars
    /\ [][(pc = "loop" /\ RenderAlwaysFails) =>
             /\ errors' = errors + 1 /\ lastIter' = "render_error"
             /\ ShowState' = ShowState
             /\ transitions' = transitions
             /\ nfetch' = nfetch
             /\ RenderAlwaysFails']_vars

\* The second matchup of the cache cannot be rendered: the loop has caught
\* its exception three times and is still at that matchup.
C20_Witness ==
    /\ pc = "loop" /\ errors = 3 /\ lastIter = "render_error"
    /\ transitions = 1 /\ current_matchup_index = 1
    /\ RenderAlwaysFails /\ nfetch = 1

\* C21: a refresh fetch that fails leaves last_api_call unchanged and
\* current_matchup_index at 0, the cache it leaves is the stale one the next
\* cycle is rendered from, and a refresh is attempted again at the very next
\* SHOWING_SUMMARY -> SHOWING_MATCHUP(0) transition, once per cycle, until
\* one succeeds.
C21_FailedRefreshRetriedNextCycle ==
    /\ [][(pc = "loop" /\ nfetch' = nfetch + 1 /\ fetchRet' # "True") =>
             /\ last_api_call' = last_api_call
             /\ current_matchup_index' = 0
             /\ CacheUnchanged]_vars
    /\ [][(pc = "loop" /\ fetchRet # "True" /\ refreshChecks' = refreshChecks + 1) =>
             nfetch' = nfetch + 1]_vars

====
